---- MODULE Spec2Model ----
(***************************************************************************)
(* State-machine model of src/components/PriceChart.tsx: the VoxelTrade    *)
(* wrapper (coin selection, USTC variant, scene choice), the CryptoChart   *)
(* simulator (window `data`, readout `price`, reset effect, tick effect    *)
(* and its interval timer), CryptoChart's render-time derivations (range,  *)
(* normalisation, percentChange, priceDisplay) and SkyWayScene's           *)
(* requestAnimationFrame loop; and the PriceChart component (loading state *)
(* and y-axis domain), which VoxelTrade does not render and which is       *)
(* therefore driven by its own specification, ChartSpec.                   *)
(*                                                                         *)
(* Numbers.  Prices and samples are JavaScript numbers; the model keeps    *)
(* them as exact integers counted in units of 1/Scale (Scale = 10^4), so   *)
(* 0.01 is 100 and 1500 is 15000000.  The coin prices are chosen so that   *)
(* every product with 0.02, 0.005, 0.8, 1.2 and every draw of Math.random  *)
(* is an exact integer number of units; the model therefore follows the    *)
(* code's arithmetic without rounding.  Math.random() returns k/RandDen    *)
(* as a periodic stream that is an input of the behaviour: a stream of     *)
(* draws k in Rand, or the stream that returns 0.5 at every call.          *)
(* Strings produced by toFixed are built digit by digit.                   *)
(*                                                                         *)
(* React.  A click handler's setState, the re-render and the DOM commit    *)
(* are one step; the passive effects of that commit (cleanups first, then  *)
(* effect bodies, in the order of the source) are the next step,           *)
(* FlushEffects.  React flushes the passive effects of a commit before it  *)
(* handles any later timer or animation-frame task, so no Tick or          *)
(* AnimateFrame is taken while pendingEffects holds.                       *)
(***************************************************************************)
EXTENDS Integers, Sequences, FiniteSets, TLC

\* ------------------------------------------------------------------------
\* Bounds of the model
\* ------------------------------------------------------------------------
MaxTicks == 84       \* ticks taken between two runs of the reset effect
MaxSwitches == 2     \* coin selections and variant toggles in one behaviour
MaxFrames == 2       \* animation-frame requests issued by one scene instance
RndPeriod == 2       \* period of the pseudo-random stream behind Math.random
MaxLen == 3          \* length of the data array passed to PriceChart

\* ------------------------------------------------------------------------
\* Number representation
\* ------------------------------------------------------------------------
Scale == 10000       \* units per 1.0
ScaleDigits == 4     \* Scale = 10^ScaleDigits
RandDen == 40        \* Math.random() = k / RandDen
Rand == {0, 39}      \* the draws k: 0 and 0.975
Infinity == 2147483647

Abs(x) == IF x < 0 THEN -x ELSE x

RECURSIVE Pow10(_)
Pow10(n) == IF n = 0 THEN 1 ELSE 10 * Pow10(n - 1)

\* ------------------------------------------------------------------------
\* The coin table (../constants, INITIAL_COINS) and the scenes
\* ------------------------------------------------------------------------
INITIAL_COINS ==
    << [id |-> "BTC",  basePrice |-> 15000000, currentPrice |-> 15000000],
       [id |-> "USTC", basePrice |-> 8000,     currentPrice |-> 5000],
       [id |-> "GAFR", basePrice |-> 0,        currentPrice |-> 0] >>

CoinIds == {INITIAL_COINS[i].id : i \in 1..Len(INITIAL_COINS)}

\* INITIAL_COINS.findIndex(c => c.id === id), 1-based
findIndex(id) == CHOOSE i \in 1..Len(INITIAL_COINS) : INITIAL_COINS[i].id = id

\* INITIAL_COINS.find(c => c.id === id) || INITIAL_COINS[0]
CoinOf(id) ==
    IF id \in CoinIds THEN INITIAL_COINS[findIndex(id)] ELSE INITIAL_COINS[1]

\* ------------------------------------------------------------------------
\* Math.random as a periodic stream
\* ------------------------------------------------------------------------
Streams == [1..RndPeriod -> Rand] \cup {[i \in 1..RndPeriod |-> RandDen \div 2]}

\* the result of the (n+1)-th next call of Math.random()
random(g, n) == g.seq[((g.pos - 1 + n) % RndPeriod) + 1]

\* the stream after n calls
Advance(g, n) == [g EXCEPT !.pos = ((g.pos - 1 + n) % RndPeriod) + 1]

\* (Math.random() - 0.5) * x, for the draw k / RandDen
MinusHalfTimes(k, x) == ((2 * k - RandDen) * x) \div (2 * RandDen)

\* ------------------------------------------------------------------------
\* CryptoChart: the simulator's arithmetic
\* ------------------------------------------------------------------------
maxPoints == 80

\* coin.basePrice * 0.02
variance(base) == (base * 2) \div 100

\* coin.basePrice * 0.005
volatility(base) == (base * 5) \div 1000

\* coin.basePrice * 0.8 and coin.basePrice * 1.2
minBound(base) == (base * 8) \div 10
maxBound(base) == (base * 12) \div 10

\* Array(maxPoints).fill(0)
FlatInit == [i \in 1..maxPoints |-> 0]

\* Array.from({length: maxPoints}, () => base + (Math.random() - 0.5) * variance)
SeedInit(base, g) ==
    [i \in 1..maxPoints |-> base + MinusHalfTimes(random(g, i - 1), variance(base))]

\* prev.slice(1)
Slice1(prev) == IF prev = << >> THEN << >> ELSE Tail(prev)

\* [...prev.slice(1), val]
PushNoEvict(prev, val) == Append(prev, val)
Push(prev, val) == Append(Slice1(prev), val)

\* Math.random() > 0.95
shouldFlicker(k) == k * 100 > 95 * RandDen

\* shouldFlicker ? (Math.random() > 0.5 ? 0.01 : -0.01) : 0
FlickerWide(g) ==
    IF shouldFlicker(random(g, 0))
    THEN (IF 2 * random(g, 1) > RandDen THEN 2 * (Scale \div 100) ELSE -(2 * (Scale \div 100)))
    ELSE 0
FlickerVal(g) ==
    IF shouldFlicker(random(g, 0))
    THEN (IF 2 * random(g, 1) > RandDen THEN Scale \div 100 ELSE -(Scale \div 100))
    ELSE 0

\* number of Math.random() calls made by one flatline tick
FlickerDraws(g) == IF shouldFlicker(random(g, 0)) THEN 2 ELSE 1

\* prev[prev.length - 1] || coin.basePrice
LastOr(prev, base) ==
    IF prev = << >> \/ prev[Len(prev)] = 0 THEN base ELSE prev[Len(prev)]

\* (Math.random() - 0.5) * volatility
Change(base, k) == MinusHalfTimes(k, volatility(base))

\* the two soft constraints applied to newPrice = last + change
ClampToBound(base, cand) ==
    LET low == IF cand < minBound(base) THEN minBound(base) ELSE cand
    IN  IF low > maxBound(base) THEN maxBound(base) ELSE low
NoConstraint(base, cand) == cand
SoftConstrain(base, cand) ==
    LET low == IF cand < minBound(base) THEN minBound(base) + volatility(base) ELSE cand
    IN  IF low > maxBound(base) THEN maxBound(base) - volatility(base) ELSE low

\* the updater of the normal branch: the sample it appends
NewPrice(prev, base, k) == SoftConstrain(base, LastOr(prev, base) + Change(base, k))

\* ------------------------------------------------------------------------
\* Number.prototype.toFixed
\* ------------------------------------------------------------------------
\* the w least significant decimal digits of n, zero padded
RECURSIVE ZeroPad(_, _)
ZeroPad(n, w) == IF w = 0 THEN "" ELSE ZeroPad(n \div 10, w - 1) \o ToString(n % 10)

RECURSIVE Zeros(_)
Zeros(w) == IF w = 0 THEN "" ELSE "0" \o Zeros(w - 1)

\* x.toFixed(f) for x counted in units of 1/Scale, f >= 1: the sign is
\* taken from x, the magnitude is rounded half up to f decimals
toFixed(x, f) ==
    LET m    == Abs(x)
        sign == IF x < 0 THEN "-" ELSE ""
    IN  IF f >= ScaleDigits
        THEN sign \o ToString(m \div Scale) \o "."
                  \o ZeroPad(m % Scale, ScaleDigits) \o Zeros(f - ScaleDigits)
        ELSE LET unit == Pow10(ScaleDigits - f)
                 n    == (m + unit \div 2) \div unit
             IN  sign \o ToString(n \div Pow10(f)) \o "." \o ZeroPad(n % Pow10(f), f)

\* (num / den * 100).toFixed(2) for the exact quotient num / den, den # 0
percentToFixed2(num, den) ==
    LET a    == Abs(num) * 100
        f    == Abs(den)
        q1   == a \div f
        r1   == a % f
        q2   == (r1 * 100) \div f
        r2   == (r1 * 100) % f
        n    == q1 * 100 + q2 + (IF 2 * r2 >= f THEN 1 ELSE 0)
        sign == IF num # 0 /\ ((num < 0) # (den < 0)) THEN "-" ELSE ""
    IN  sign \o ToString(n \div 100) \o "." \o ZeroPad(n % 100, 2)

\* ------------------------------------------------------------------------
\* CryptoChart: the render-time derivations
\* ------------------------------------------------------------------------
\* the least element of a non-empty set of numbers
Least(S) == CHOOSE x \in S : \A y \in S : x <= y

\* Math.min(...data) and Math.max(...data)
min(d) == IF d = << >> THEN Infinity ELSE Least({d[i] : i \in 1..Len(d)})
max(d) == IF d = << >> THEN -Infinity ELSE -Least({-d[i] : i \in 1..Len(d)})

\* (max - min) || (coin.basePrice > 0 ? coin.basePrice * 0.0001 : 1), as the
\* exact quotient num / den in units of 1/Scale; lo and hi are min and max
rangeUnguarded(coin, lo, hi) ==
    IF hi < lo THEN [num |-> -Infinity, den |-> 1]
    ELSE [num |-> hi - lo, den |-> 1]
range(coin, lo, hi) ==
    IF hi < lo THEN [num |-> -Infinity, den |-> 1]
    ELSE IF hi - lo # 0 THEN [num |-> hi - lo, den |-> 1]
    ELSE IF coin.basePrice > 0 THEN [num |-> coin.basePrice, den |-> 10000]
    ELSE [num |-> 1 * Scale, den |-> 1]

\* (d - min) / range for the sample d, as a quotient num / den
normalizedY(d, lo, rg) == [num |-> (d - lo) * rg.den, den |-> rg.num]

\* (max === min) ? 0.5 : normalizedY
effectiveY(lo, hi, ny) == IF hi = lo THEN [num |-> 1, den |-> 2] ELSE ny

\* data[0] || 0
FirstOr0(d) == IF d = << >> THEN 0 ELSE d[1]

\* price >= (data[0] || 0)
isPositive(d, p) == p >= FirstOr0(d)

\* data.length > 0 && data[0] !== 0 ? ((price - data[0])/data[0] * 100).toFixed(2) : "0.00"
percentChangeNoZeroGuard(d, p) ==
    IF Len(d) = 0 THEN "0.00"
    ELSE IF d[1] = 0 THEN (IF p = 0 THEN "NaN" ELSE IF p > 0 THEN "Infinity" ELSE "-Infinity")
    ELSE percentToFixed2(p - d[1], d[1])
percentChange(d, p) ==
    IF Len(d) > 0 /\ d[1] # 0 THEN percentToFixed2(p - d[1], d[1]) ELSE "0.00"

\* Number(percentChange), counted in hundredths: the value the string
\* percentChange(d, p) denotes
NumberOfPercentChange(d, p) ==
    IF Len(d) > 0 /\ d[1] # 0
    THEN LET num  == p - d[1]
             den  == d[1]
             a    == Abs(num) * 100
             f    == Abs(den)
             q1   == a \div f
             r1   == a % f
             q2   == (r1 * 100) \div f
             r2   == (r1 * 100) % f
             n    == q1 * 100 + q2 + (IF 2 * r2 >= f THEN 1 ELSE 0)
         IN  IF (num < 0) # (den < 0) THEN -n ELSE n
    ELSE 0

\* the text React renders for a non-negative number h counted in hundredths
NumberText(h) ==
    IF h % 100 = 0 THEN ToString(h \div 100)
    ELSE IF h % 10 = 0 THEN ToString(h \div 100) \o "." \o ToString((h % 100) \div 10)
    ELSE ToString(h \div 100) \o "." \o ZeroPad(h % 100, 2)

\* {Math.abs(Number(percentChange))}%: the number shown before the % sign
percentReadout(d, p) == NumberText(Abs(NumberOfPercentChange(d, p)))

\* coin.id === 'GAFR' ? "0.00" : (price < 1 ? price.toFixed(8) : price.toFixed(2))
priceDisplayNoFlatline(coin, p) ==
    IF p < Scale THEN toFixed(p, 8) ELSE toFixed(p, 2)
priceDisplay(coin, p) ==
    IF coin.id = "GAFR" THEN "0.00"
    ELSE IF p < Scale THEN toFixed(p, 8) ELSE toFixed(p, 2)

\* the polyline: effectiveY of every sample of the window
Points(coin, d) ==
    LET lo == min(d)
        hi == max(d)
        rg == range(coin, lo, hi)
    IN  [i \in 1..Len(d) |-> effectiveY(lo, hi, normalizedY(d[i], lo, rg))]

\* everything CryptoChart derives at render time from the coin prop and its
\* two pieces of state, the window d and the price p
Display(coin, d, p) ==
    [points        |-> Points(coin, d),
     isPositive    |-> isPositive(d, p),
     percentChange |-> percentChange(d, p),
     priceDisplay  |-> priceDisplay(coin, p)]

\* ------------------------------------------------------------------------
\* PriceChart: the loading state and the y-axis domain
\* ------------------------------------------------------------------------
\* the values d.value of the data prop: -0.1, 0, 0.1 and 2
ChartValues == {-(Scale \div 10), 0, Scale \div 10, 2 * Scale}

RECURSIVE SeqsUpTo(_, _)
SeqsUpTo(S, n) ==
    IF n = 0 THEN {<< >>}
    ELSE LET shorter == SeqsUpTo(S, n - 1)
         IN  shorter \cup {Append(q, x) : q \in {r \in shorter : Len(r) = n - 1}, x \in S}

\* the props of PriceChart: given is FALSE when data is undefined or null
ChartProps ==
    {[given |-> FALSE, data |-> << >>, detailed |-> det] : det \in BOOLEAN}
    \cup {[given |-> TRUE, data |-> d, detailed |-> det] :
              d \in SeqsUpTo(ChartValues, MaxLen), det \in BOOLEAN}

\* Math.min(...prices) * (detailed ? 0.999 : 0.99)
chartMinCompactOnly(prices, det) == (min(prices) * 990) \div 1000
chartMin(prices, det) == (min(prices) * (IF det THEN 999 ELSE 990)) \div 1000

\* Math.max(...prices) * (detailed ? 1.001 : 1.01)
chartMax(prices, det) == (max(prices) * (IF det THEN 1001 ELSE 1010)) \div 1000

\* what PriceChart renders for the props p: the loading placeholder, or the
\* AreaChart with <YAxis domain={[min, max]}>
PriceChart(p) ==
    IF ~p.given \/ Len(p.data) = 0
    THEN [state |-> "loading", domain |-> << >>]
    ELSE [state |-> "chart",
          domain |-> << chartMin(p.data, p.detailed), chartMax(p.data, p.detailed) >>]

\* ------------------------------------------------------------------------
\* VoxelTrade: which scene component renderScene returns
\* ------------------------------------------------------------------------
renderScene(coin, variant) ==
    IF coin.id = "GAFR" THEN "GafferScene"
    ELSE IF coin.id = "USTC" /\ variant = "exotic" THEN "SkyPodScene"
    ELSE "SkyWayScene"

\* ------------------------------------------------------------------------
\* State
\* ------------------------------------------------------------------------
VARIABLES
    mounted,         \* VoxelTrade (and with it CryptoChart and the scene) is mounted
    selectedCoinId,  \* VoxelTrade state
    ustcVariant,     \* VoxelTrade state: "standard" or "exotic"
    switches,        \* number of committed selections and toggles (bounded)
    pendingEffects,  \* a render is committed and its passive effects have not run
    effectCoin,      \* the coin the [coin] effects of CryptoChart last ran for
    data,            \* CryptoChart state: the window, oldest sample first
    price,           \* CryptoChart state: the price readout
    origin,          \* for each sample of data, the id of the coin it was computed for
    seeded,          \* the window the reset effect set when it last ran
    ticks,           \* ticks taken since the reset effect last ran (bounded)
    rng,             \* the Math.random stream: [seq, pos]
    interval,        \* the id returned by the last setInterval (0: none yet)
    timers,          \* the live interval timers: [id, coin], coin = the closure's coin
    sceneLive,       \* the scene component whose effect is mounted ("none": none)
    sceneInst,       \* number of the SkyWayScene instance mounted last
    requestRef,      \* requestRef.current of that instance (0: null)
    rafPending,      \* the pending animation-frame requests: [inst, id]
    chartProps,      \* the props PriceChart was last rendered with
    chartView        \* what PriceChart rendered for them

vars == << mounted, selectedCoinId, ustcVariant, switches, pendingEffects,
           effectCoin, data, price, origin, seeded, ticks, rng, interval, timers,
           sceneLive, sceneInst, requestRef, rafPending, chartProps, chartView >>

chartVars == << effectCoin, data, price, origin, seeded, ticks, rng, interval, timers >>
sceneVars == << sceneLive, sceneInst, requestRef, rafPending >>
priceChartVars == << chartProps, chartView >>

\* const selectedCoin = INITIAL_COINS.find(c => c.id === selectedCoinId) || INITIAL_COINS[0]
selectedCoin == CoinOf(selectedCoinId)

\* the first render: useState initial values, no effect has run
Init ==
    /\ mounted = TRUE
    /\ selectedCoinId = INITIAL_COINS[1].id
    /\ ustcVariant = "standard"
    /\ switches = 0
    /\ pendingEffects = TRUE
    /\ effectCoin = "none"
    /\ data = << >>
    /\ price = INITIAL_COINS[1].currentPrice
    /\ origin = << >>
    /\ seeded = << >>
    /\ ticks = 0
    /\ rng \in {[seq |-> s, pos |-> 1] : s \in Streams}
    /\ interval = 0
    /\ timers = {}
    /\ sceneLive = "none"
    /\ sceneInst = 0
    /\ requestRef = 0
    /\ rafPending = {}
    /\ chartProps = [given |-> FALSE, data |-> << >>, detailed |-> FALSE]
    /\ chartView = [state |-> "unrendered", domain |-> << >>]

\* ------------------------------------------------------------------------
\* VoxelTrade: the click handlers (setState, re-render and commit)
\* ------------------------------------------------------------------------
\* setSelectedCoinId(id) followed by the re-render; selecting the coin that
\* is already selected leaves the state as it is and renders nothing
Select(id) ==
    /\ mounted
    /\ ~pendingEffects
    /\ switches < MaxSwitches
    /\ id # selectedCoinId
    /\ selectedCoinId' = id
    /\ switches' = switches + 1
    /\ pendingEffects' = TRUE
    /\ UNCHANGED << mounted, ustcVariant, chartVars, sceneVars, priceChartVars >>

\* onClick={() => setSelectedCoinId(coin.id)} of the coin buttons
SelectCoin == \E id \in CoinIds : Select(id)

handleNextCoin ==
    LET currentIndex == findIndex(selectedCoinId) - 1
        nextIndex    == (currentIndex + 1) % Len(INITIAL_COINS)
    IN  Select(INITIAL_COINS[nextIndex + 1].id)

handlePrevCoin ==
    LET currentIndex == findIndex(selectedCoinId) - 1
        prevIndex    == (currentIndex - 1 + Len(INITIAL_COINS)) % Len(INITIAL_COINS)
    IN  Select(INITIAL_COINS[prevIndex + 1].id)

\* the variant switcher, rendered only while USTC is selected
ToggleVariant ==
    /\ mounted
    /\ ~pendingEffects
    /\ switches < MaxSwitches
    /\ selectedCoin.id = "USTC"
    /\ ustcVariant' = IF ustcVariant = "standard" THEN "exotic" ELSE "standard"
    /\ switches' = switches + 1
    /\ pendingEffects' = TRUE
    /\ UNCHANGED << mounted, selectedCoinId, chartVars, sceneVars, priceChartVars >>

\* ------------------------------------------------------------------------
\* Timers and animation frames of the host
\* ------------------------------------------------------------------------
\* clearInterval(id)
clearIntervalIgnored(ts, id) == ts
clearInterval(ts, id) == {t \in ts : t.id # id}

\* cancelAnimationFrame(id) for the request id of scene instance inst
cancelAnimationFrame(pending, inst, id) ==
    {q \in pending : ~(q.inst = inst /\ q.id = id)}

\* SkyWayScene's effect cleanup:
\* if (requestRef.current) cancelAnimationFrame(requestRef.current)
SkyWayCleanupNoCancel(pending, inst, ref) == pending
SkyWayCleanup(pending, inst, ref) ==
    IF ref # 0 THEN cancelAnimationFrame(pending, inst, ref) ELSE pending

\* ------------------------------------------------------------------------
\* CryptoChart: the two effects keyed on [coin]
\* ------------------------------------------------------------------------
\* the dependency check of the reset effect and of the tick effect: the
\* effect runs on mount and whenever the coin differs from the last one
ResetOnMountOnly(last, id) == last = "none"
ResetEffectRuns(last, id) == last # id

TickEffectEveryRender(last, id) == TRUE
TickEffectRuns(last, id) == last # id

\* the window the reset effect sets
ResetData(coin, g) ==
    IF coin.id = "GAFR" THEN FlatInit ELSE SeedInit(coin.basePrice, g)

\* the price the reset effect sets
ResetPriceFromBase(coin) == IF coin.id = "GAFR" THEN 0 ELSE coin.basePrice
ResetPrice(coin) == IF coin.id = "GAFR" THEN 0 ELSE coin.currentPrice

\* the number of Math.random() calls of the reset effect
ResetDraws(coin) == IF coin.id = "GAFR" THEN 0 ELSE maxPoints

\* The passive effects of the last commit: the cleanups of the effects that
\* are torn down (SkyWayScene's when the scene component changed, the tick
\* effect's when the coin changed), then the effect bodies (the new scene's
\* animate(), CryptoChart's reset effect and tick effect).
FlushEffects ==
    /\ mounted
    /\ pendingEffects
    /\ pendingEffects' = FALSE
    /\ LET sc        == renderScene(selectedCoin, ustcVariant)
           remount   == sc # sceneLive
           cancelled == IF remount /\ sceneLive = "SkyWayScene"
                        THEN SkyWayCleanup(rafPending, sceneInst, requestRef)
                        ELSE rafPending
       IN  /\ sceneLive' = sc
           /\ IF remount /\ sc = "SkyWayScene"
              THEN /\ sceneInst' = sceneInst + 1
                   /\ requestRef' = 1
                   /\ rafPending' = cancelled \cup {[inst |-> sceneInst + 1, id |-> 1]}
              ELSE IF remount
              THEN /\ sceneInst' = sceneInst
                   /\ requestRef' = 0
                   /\ rafPending' = cancelled
              ELSE UNCHANGED << sceneInst, requestRef, rafPending >>
    /\ effectCoin' = selectedCoinId
    /\ IF ResetEffectRuns(effectCoin, selectedCoinId)
       THEN /\ data' = ResetData(selectedCoin, rng)
            /\ price' = ResetPrice(selectedCoin)
            /\ origin' = [i \in 1..maxPoints |-> selectedCoin.id]
            /\ seeded' = ResetData(selectedCoin, rng)
            /\ ticks' = 0
            /\ rng' = Advance(rng, ResetDraws(selectedCoin))
       ELSE UNCHANGED << data, price, origin, seeded, ticks, rng >>
    /\ IF TickEffectRuns(effectCoin, selectedCoinId)
       THEN /\ interval' = interval + 1
            /\ timers' = clearInterval(timers, interval)
                           \cup {[id |-> interval + 1, coin |-> selectedCoin.id]}
       ELSE UNCHANGED << interval, timers >>
    /\ UNCHANGED << mounted, selectedCoinId, ustcVariant, switches, priceChartVars >>

\* the price the flatline branch sets: setPrice(0)
FlatPrice == 0

\* One run of the interval callback of timer t, with the coin of its closure.
\* The updater passed to setData is applied to the current window.
Tick ==
    \E t \in timers :
        LET coin == CoinOf(t.coin)
        IN  /\ mounted
            /\ ~pendingEffects
            /\ ticks < MaxTicks
            /\ ticks' = ticks + 1
            /\ origin' = Push(origin, coin.id)
            /\ IF coin.id = "GAFR"
               THEN /\ data' = Push(data, FlickerVal(rng))
                    /\ price' = FlatPrice
                    /\ rng' = Advance(rng, FlickerDraws(rng))
               ELSE LET newPrice == NewPrice(data, coin.basePrice, random(rng, 0))
                    IN  /\ data' = Push(data, newPrice)
                        /\ price' = newPrice
                        /\ rng' = Advance(rng, 1)
            /\ UNCHANGED << mounted, selectedCoinId, ustcVariant, switches,
                            pendingEffects, effectCoin, seeded, interval, timers, sceneVars,
                            priceChartVars >>

\* ------------------------------------------------------------------------
\* SkyWayScene: the animation loop
\* ------------------------------------------------------------------------
\* The browser runs the callback of the pending request q: animate() first
\* requests the next frame and stores its id in requestRef.current.
AnimateFrame ==
    \E q \in rafPending :
        /\ ~pendingEffects
        /\ q.id < MaxFrames
        /\ rafPending' = (rafPending \ {q}) \cup {[inst |-> q.inst, id |-> q.id + 1]}
        /\ requestRef' = IF sceneLive = "SkyWayScene" /\ q.inst = sceneInst
                         THEN q.id + 1 ELSE requestRef
        /\ UNCHANGED << mounted, selectedCoinId, ustcVariant, switches,
                        pendingEffects, chartVars, sceneLive, sceneInst,
                        priceChartVars >>

\* ------------------------------------------------------------------------
\* Unmount of VoxelTrade: every effect cleanup runs and the state of the
\* components is discarded
\* ------------------------------------------------------------------------
Unmount ==
    /\ mounted
    /\ ~pendingEffects
    /\ mounted' = FALSE
    /\ timers' = clearInterval(timers, interval)
    /\ rafPending' = IF sceneLive = "SkyWayScene"
                     THEN SkyWayCleanup(rafPending, sceneInst, requestRef)
                     ELSE rafPending
    /\ sceneLive' = "none"
    /\ requestRef' = 0
    /\ data' = << >>
    /\ origin' = << >>
    /\ seeded' = << >>
    /\ price' = 0
    /\ ticks' = 0
    /\ effectCoin' = "none"
    /\ UNCHANGED << selectedCoinId, ustcVariant, switches, pendingEffects,
                    interval, sceneInst, rng, priceChartVars >>

Next ==
    \/ SelectCoin
    \/ handleNextCoin
    \/ handlePrevCoin
    \/ ToggleVariant
    \/ FlushEffects
    \/ Tick
    \/ AnimateFrame
    \/ Unmount

Spec == Init /\ [][Next]_vars

\* ------------------------------------------------------------------------
\* PriceChart on its own: a parent renders it with some props
\* ------------------------------------------------------------------------
PriceChartRender ==
    \E p \in ChartProps :
        /\ chartProps' = p
        /\ chartView' = PriceChart(p)
        /\ UNCHANGED << mounted, selectedCoinId, ustcVariant, switches,
                        pendingEffects, chartVars, sceneVars >>

ChartNext == PriceChartRender

ChartSpec == Init /\ [][ChartNext]_vars

\* ------------------------------------------------------------------------
\* Type invariant
\* ------------------------------------------------------------------------
TypeOK ==
    /\ mounted \in BOOLEAN
    /\ selectedCoinId \in CoinIds
    /\ ustcVariant \in {"standard", "exotic"}
    /\ switches \in 0..MaxSwitches
    /\ pendingEffects \in BOOLEAN
    /\ effectCoin \in CoinIds \cup {"none"}
    /\ Len(data) = Len(origin)
    /\ ticks \in 0..MaxTicks
    /\ rng.pos \in 1..RndPeriod
    /\ chartView.state \in {"unrendered", "loading", "chart"}

\* ------------------------------------------------------------------------
\* Properties
\* ------------------------------------------------------------------------
\* the reset effect has run for the coin that is now selected
Initialized == effectCoin = selectedCoinId

\* the selected coin is a normal-class coin with a positive base price
NormalCoin == selectedCoin.id # "GAFR" /\ selectedCoin.basePrice > 0

\* C1: once the reset effect has run, the window holds exactly maxPoints
\* samples, in every state: after the reset, after every tick of either
\* branch, and across instrument switches.
WindowLengthFixed == effectCoin # "none" => Len(data) = maxPoints

WindowLengthFixedWitness ==
    /\ Initialized
    /\ switches > 0
    /\ ticks > 1
    /\ Len(data) = maxPoints

\* C2: while a normal-class coin with basePrice > 0 is initialized, every
\* sample of the window lies in [0.8 * basePrice, 1.2 * basePrice], the
\* bounds included.
NormalSamplesInBand ==
    (Initialized /\ NormalCoin) =>
        \A i \in 1..Len(data) :
            /\ 10 * data[i] >= 8 * selectedCoin.basePrice
            /\ 10 * data[i] <= 12 * selectedCoin.basePrice

\* a tick has pushed the walk over the upper bound and it was reset
NormalSamplesInBandWitness ==
    /\ Initialized
    /\ NormalCoin
    /\ ticks > 0
    /\ data[maxPoints] = 1195 * (selectedCoin.basePrice \div 1000)
    /\ data[maxPoints - 1] > data[maxPoints]

\* C3: while the flatline coin is initialized the window is 80 zeros right
\* after the reset, every sample of the window is 0, +0.01 or -0.01, and
\* the price readout is 0.
FlatlineSamples ==
    (Initialized /\ selectedCoinId = "GAFR") =>
        /\ Len(data) = 80
        /\ \A i \in 1..Len(data) : data[i] \in {0, Scale \div 100, -(Scale \div 100)}
        /\ ticks = 0 => \A i \in 1..Len(data) : data[i] = 0
        /\ price = 0

\* a flicker tick has appended -0.01 to a window that still starts with a
\* zero of the reset
FlatlineSamplesWitness ==
    /\ Initialized
    /\ selectedCoinId = "GAFR"
    /\ ticks > 0
    /\ data[maxPoints] = -(Scale \div 100)
    /\ data[1] = 0
    /\ price = 0

\* C4: the normalisation of a window sample never divides by zero.  When
\* max - min is 0 the divisor is basePrice * 0.0001 if basePrice > 0 and 1
\* otherwise, and the effective value of every point is 0.5; when max # min
\* the normalised value (sample - min) / (max - min) lies in [0, 1].
NormalizeGuarded ==
    LET coin == selectedCoin
        lo   == min(data)
        hi   == max(data)
        rg   == range(coin, lo, hi)
    IN  \A i \in 1..Len(data) :
            LET ny == normalizedY(data[i], lo, rg)
                ey == effectiveY(lo, hi, ny)
            IN  /\ ny.den # 0
                /\ hi - lo = 0 =>
                     /\ rg = IF coin.basePrice > 0
                             THEN [num |-> coin.basePrice, den |-> 10000]
                             ELSE [num |-> 1 * Scale, den |-> 1]
                     /\ 2 * ey.num = ey.den
                /\ hi # lo =>
                     /\ ey = [num |-> data[i] - lo, den |-> hi - lo]
                     /\ 0 <= ey.num
                     /\ ey.num <= ey.den

\* a flat window of a coin with a positive base price
NormalizeGuardedWitness ==
    /\ data # << >>
    /\ max(data) = min(data)
    /\ selectedCoin.basePrice > 0
    /\ Initialized

\* C5: percentChange is "0.00" whenever the window is empty or its first
\* sample is 0; otherwise it is (price - first) / first * 100 with two
\* decimals (rounded half up on the magnitude), e.g. first = 100 and
\* price = 150 give "50.00".  The general case is stated for differences
\* small enough for the products below to fit the integers of the checker.
PercentChangeGuarded ==
    LET pc    == percentChange(data, price)
        first == data[1]
        diff  == price - first
        n     == (2 * Abs(diff) * 10000 + Abs(first)) \div (2 * Abs(first))
        sign  == IF diff # 0 /\ ((diff < 0) # (first < 0)) THEN "-" ELSE ""
    IN  /\ (data = << >> \/ data[1] = 0) => pc = "0.00"
        /\ (data # << >> /\ data[1] # 0 /\ Abs(price - data[1]) <= 100000) =>
              pc = sign \o ToString(n \div 100) \o "." \o ZeroPad(n % 100, 2)
        /\ percentChange(<< 100 * Scale >>, 150 * Scale) = "50.00"

\* the first sample is a zero although samples were appended
PercentChangeGuardedWitness ==
    /\ data # << >>
    /\ data[1] = 0
    /\ data[maxPoints] # 0
    /\ percentChange(data, price) = "0.00"

\* C6: the price label is "0.00" while the flatline coin is the active coin,
\* whatever the price state; for any other coin it has 8 decimals when
\* price < 1 and 2 decimals when price >= 1 (0.5 gives "0.50000000", 1500
\* gives "1500.00").
PriceLabel ==
    LET label == priceDisplay(selectedCoin, price)
    IN  /\ selectedCoinId = "GAFR" => label = "0.00"
        /\ (selectedCoinId # "GAFR" /\ price < 1 * Scale) => label = toFixed(price, 8)
        /\ (selectedCoinId # "GAFR" /\ price >= 1 * Scale) => label = toFixed(price, 2)
        /\ (selectedCoinId # "GAFR" /\ price = Scale \div 2) => label = "0.50000000"
        /\ (selectedCoinId # "GAFR" /\ price = 1500 * Scale) => label = "1500.00"

\* the flatline coin is displayed while the price state is still the
\* previous coin's price
PriceLabelWitness ==
    /\ selectedCoinId = "GAFR"
    /\ price # 0
    /\ priceDisplay(selectedCoin, price) = "0.00"

\* C7: at most one interval timer is live at any time; once the effects of
\* a switch have run the only live timer closes over the selected coin, so
\* every sample of the window was computed for the selected coin; after
\* unmount no timer is live.
SingleTickSource ==
    /\ Cardinality(timers) <= 1
    /\ (mounted /\ ~pendingEffects) =>
          /\ \A t \in timers : t.coin = selectedCoinId /\ t.id = interval
          /\ \A i \in 1..Len(origin) : origin[i] = selectedCoinId
    /\ ~mounted => timers = {}

\* after a switch the new coin's timer has ticked
SingleTickSourceWitness ==
    /\ mounted
    /\ ~pendingEffects
    /\ switches > 0
    /\ selectedCoinId # INITIAL_COINS[1].id
    /\ ticks > 0
    /\ Cardinality(timers) = 1

\* C8: once the reset effect has run for a newly selected coin and before
\* its first tick, the window is a freshly initialized one (80 zeros for
\* GAFR, otherwise 80 seeds within 1% of the new basePrice), the price is
\* the new coin's currentPrice (0 for GAFR), and no sample of the previous
\* coin is left in the window.
SwitchResetsSeries ==
    (Initialized /\ ~pendingEffects /\ ticks = 0) =>
        /\ Len(data) = 80
        /\ \A i \in 1..Len(data) :
              /\ origin[i] = selectedCoinId
              /\ IF selectedCoinId = "GAFR"
                 THEN data[i] = 0
                 ELSE 100 * Abs(data[i] - selectedCoin.basePrice) <= selectedCoin.basePrice
        /\ price = IF selectedCoinId = "GAFR" THEN 0 ELSE selectedCoin.currentPrice

\* the reset effect has run for a coin selected after the first one
SwitchResetsSeriesWitness ==
    /\ Initialized
    /\ ~pendingEffects
    /\ ticks = 0
    /\ switches > 0
    /\ selectedCoinId # INITIAL_COINS[1].id
    /\ data # << >>

\* C9, as claimed: every switch of the selected coin cancels the animation
\* frame request that was pending before the switch, also when the old and
\* the new coin both render SkyWayScene.
SwitchCancelsEveryFrame ==
    [][(pendingEffects /\ ~pendingEffects' /\ effectCoin # "none"
            /\ effectCoin' # effectCoin)
          => rafPending \cap rafPending' = {}]_vars

\* C9, amended: every pending animation-frame request belongs to the
\* SkyWayScene instance that is mounted now.  A switch that replaces the
\* scene component cancels the request of the instance it unmounts, and the
\* animate callback of that instance never runs again; a switch between two
\* coins that both render SkyWayScene keeps the instance and its loop.
FramesOnlyForMountedScene ==
    rafPending = IF sceneLive = "SkyWayScene"
                 THEN {[inst |-> sceneInst, id |-> requestRef]}
                 ELSE {}

\* a switch has unmounted a SkyWayScene whose loop was running
FramesOnlyForMountedSceneWitness ==
    /\ mounted
    /\ ~pendingEffects
    /\ sceneInst > 0
    /\ sceneLive # "SkyWayScene"
    /\ rafPending = {}

\* C10: a tick of a normal-class coin appends last + change, where last is
\* the most recent sample (basePrice if the window is empty) and change is
\* the draw (Math.random() - 0.5) * 0.005 * basePrice, at most 0.5% of
\* basePrice in magnitude; a candidate below 0.8 * basePrice is replaced by
\* 0.8 * basePrice + 0.005 * basePrice and one above 1.2 * basePrice by
\* 1.2 * basePrice - 0.005 * basePrice.  The oldest sample is evicted and
\* the price readout is the appended value.
NormalTickAppends ==
    [][(ticks' = ticks + 1 /\ origin'[Len(origin')] # "GAFR") =>
          LET base   == CoinOf(origin'[Len(origin')]).basePrice
              last   == IF data = << >> THEN base ELSE data[Len(data)]
              change == Change(base, rng.seq[rng.pos])
              cand   == last + change
              new    == data'[Len(data')]
          IN  /\ 1000 * Abs(change) <= 5 * base
              /\ 10 * cand < 8 * base =>
                    new = (8 * base) \div 10 + (5 * base) \div 1000
              /\ 10 * cand > 12 * base =>
                    new = (12 * base) \div 10 - (5 * base) \div 1000
              /\ (10 * cand >= 8 * base /\ 10 * cand <= 12 * base) => new = cand
              /\ price' = new
              /\ data' = Append(Tail(data), new)]_vars

\* a tick has pushed the walk under the lower bound and it was reset
NormalTickAppendsWitness ==
    /\ Initialized
    /\ NormalCoin
    /\ ticks > 0
    /\ data[maxPoints] = 805 * (selectedCoin.basePrice \div 1000)
    /\ data[maxPoints - 1] < data[maxPoints]

\* C11: PriceChart rendered with a non-empty data array shows the chart with
\* the y-axis domain [m * 0.99, M * 1.01] in compact mode and
\* [m * 0.999, M * 1.001] in detailed mode, m and M being the plain minimum
\* and maximum of the data values; with missing or empty data it shows the
\* loading placeholder and derives no bounds.
ChartDomain ==
    chartView.state # "unrendered" =>
        LET d == chartProps.data
        IN  IF ~chartProps.given \/ d = << >>
            THEN chartView = [state |-> "loading", domain |-> << >>]
            ELSE /\ chartView.state = "chart"
                 /\ Len(chartView.domain) = 2
                 /\ \E i, j \in 1..Len(d) :
                       /\ \A k \in 1..Len(d) : d[i] <= d[k] /\ d[k] <= d[j]
                       /\ 1000 * chartView.domain[1]
                             = d[i] * (IF chartProps.detailed THEN 999 ELSE 990)
                       /\ 1000 * chartView.domain[2]
                             = d[j] * (IF chartProps.detailed THEN 1001 ELSE 1010)

\* a detailed chart of data whose minimum and maximum differ and are not 0
ChartDomainWitness ==
    /\ chartView.state = "chart"
    /\ chartProps.detailed
    /\ Len(chartProps.data) = 3
    /\ chartProps.data[1] = 2 * Scale
    /\ chartProps.data[2] = Scale \div 10
    /\ chartView.domain = << 999, 20020 >>

\* the price readout as the code sets it: coin.currentPrice from the reset
\* until the first tick, then the sample the last tick appended; 0 for the
\* flatline coin
ReadoutOf(coin, d, t) ==
    IF coin.id = "GAFR" THEN 0
    ELSE IF t = 0 THEN coin.currentPrice
    ELSE d[Len(d)]

\* C12, as claimed: the derived display is a function of the active coin
\* and the window alone.  A state reached after ticks whose window equals
\* the window the reset effect had set for the same coin shows the same
\* display as the state right after that reset.
DisplayDeterminedByWindow ==
    (Initialized /\ data = seeded) =>
        Display(selectedCoin, data, price)
            = Display(selectedCoin, seeded, ResetPrice(selectedCoin))

\* C12, amended: the display is derived from the active coin, the window
\* and the price readout, which is state of its own: the trend sign, the
\* percent change and the price label are those of the coin's currentPrice
\* from the reset until the first tick and those of the newest sample after
\* every tick (of 0 for the flatline coin); only the normalized points are
\* determined by the coin and the window.
DisplayDeterminedByWindowAndPrice ==
    Initialized =>
        LET p == ReadoutOf(selectedCoin, data, ticks)
        IN  /\ price = p
            /\ isPositive(data, price) = (p >= data[1])
            /\ percentChange(data, price) = percentChange(data, p)
            /\ priceDisplay(selectedCoin, price) = priceDisplay(selectedCoin, p)

\* after a tick the window is again the one the reset effect had set, and
\* the display differs from the one shown right after the reset
DisplayDeterminedByWindowAndPriceWitness ==
    /\ Initialized
    /\ ticks > 0
    /\ data = seeded
    /\ data # << >>
    /\ price = data[maxPoints]
    /\ Display(selectedCoin, data, price)
          # Display(selectedCoin, seeded, ResetPrice(selectedCoin))

RenderedStateBelongsToCoin ==
    (mounted /\ data # << >>) =>
        /\ \A i \in 1..Len(origin) : origin[i] = selectedCoinId
        /\ price = ReadoutOf(selectedCoin, data, ticks)

\* the render committed by a switch from BTC to USTC, before its effects
\* run: the USTC header over the BTC window, with the BTC price as label
RenderedStateBelongsToCoinWitness ==
    /\ mounted
    /\ pendingEffects
    /\ selectedCoinId = "USTC"
    /\ effectCoin = "BTC"
    /\ Len(data) = maxPoints
    /\ \A i \in 1..Len(origin) : origin[i] = "BTC"
    /\ priceDisplay(selectedCoin, price) = toFixed(price, 2)
    /\ price >= minBound(CoinOf("BTC").basePrice)

\* C15, as claimed: while the flatline coin is active and initialized,
\* percentChange is "0.00" and the percent readout shows zero, in every
\* reachable state, also when a flicker sample has become the first sample
\* of the window.
FlatlinePercentZero ==
    (Initialized /\ selectedCoinId = "GAFR") =>
        /\ percentChange(data, price) = "0.00"
        /\ percentReadout(data, price) = "0"

\* a flicker sample has become the first sample of the flatline window
FlatlinePercentZeroWitness ==
    /\ Initialized
    /\ selectedCoinId = "GAFR"
    /\ price = 0
    /\ data[1] \in {Scale \div 100, -(Scale \div 100)}
    /\ percentChange(data, price) = "-100.00"
    /\ percentReadout(data, price) = "100"

\* C16, as claimed: for every non-empty data array, in compact and in
\* detailed mode, the y-axis domain [lo, hi] of PriceChart satisfies
\* lo <= hi and contains every data value, zero and negative values included.
DomainContainsData ==
    chartView.state = "chart" =>
        LET lo == chartView.domain[1]
            hi == chartView.domain[2]
        IN  /\ lo <= hi
            /\ \A i \in 1..Len(chartProps.data) :
                  lo <= chartProps.data[i] /\ chartProps.data[i] <= hi

\* a compact chart of the single value -0.1: the domain is [-0.099, -0.101]
DomainContainsDataWitness ==
    /\ chartView.state = "chart"
    /\ ~chartProps.detailed
    /\ chartProps.data = << -(Scale \div 10) >>
    /\ chartView.domain = << -990, -1010 >>

====
